---- MODULE Spec2Model ----
(***************************************************************************)
(* A model of the data preparation and aggregation pipeline of the         *)
(* ASP_CIE dashboard: ingest type normalisation (utils/io.py), the period  *)
(* decomposer, filter engine and aggregator (utils/prep.py), the metric    *)
(* deriver (app.py) and the recovery analyser (sections/deep_dives.py).    *)
(*                                                                         *)
(* A DataFrame is a record [cols, dtype, rows]: cols is the ordered column *)
(* list, dtype the pandas dtype of each column, rows the sequence of rows, *)
(* each a function from column name to cell.  A cell is a record           *)
(* [k, n, d, s, cs]: k = "num" is the number n/d (d > 0, lowest terms),    *)
(* k = "na" a missing value (NaN, pd.NA), k = "str" the label s, k = "txt" *)
(* the character string cs, k = "none" Python's None, k = "absent" the     *)
(* cell of a column the frame does not have.                               *)
(***************************************************************************)
EXTENDS Integers, Sequences, FiniteSets, TLC

VARIABLES pc, raw, args, dfm, fm, hm, rec, ing, cache

vars == <<pc, raw, args, dfm, fm, hm, rec, ing, cache>>

----------------------------------------------------------------------------
(* Cells and exact arithmetic on them                                      *)

Abs(x) == IF x < 0 THEN -x ELSE x

RECURSIVE Gcd(_, _)
Gcd(a, b) == IF b = 0 THEN a ELSE Gcd(b, a % b)

Cell(k, n, d, s, cs) == [k |-> k, n |-> n, d |-> d, s |-> s, cs |-> cs]

\* the number n/d in lowest terms, d # 0
Num(n, d) ==
    LET g == Gcd(Abs(n), Abs(d))
        sgn == IF d < 0 THEN -1 ELSE 1
    IN  Cell("num", sgn * (n \div g), sgn * (d \div g), "", <<>>)

IntC(n) == Cell("num", n, 1, "", <<>>)
NA == Cell("na", 0, 1, "", <<>>)
None == Cell("none", 0, 1, "", <<>>)
Absent == Cell("absent", 0, 1, "", <<>>)
Str(s) == Cell("str", 0, 1, s, <<>>)
Txt(cs) == Cell("txt", 0, 1, "", cs)
Inf == Cell("inf", 1, 1, "", <<>>)

IsNum(c) == c.k = "num"
IsNA(c) == c.k = "na"

RatAdd(a, b) == Num(a.n * b.d + b.n * a.d, a.d * b.d)
RatSub(a, b) == Num(a.n * b.d - b.n * a.d, a.d * b.d)
RatMul(a, b) == Num(a.n * b.n, a.d * b.d)
\* a / b for b # 0
RatDiv(a, b) == Num(a.n * b.d, a.d * b.n)
RatLT(a, b) == a.n * b.d < b.n * a.d
RatLE(a, b) == a.n * b.d <= b.n * a.d
RatIsZero(a) == a.n = 0

\* int(x) of a finite float: truncation towards zero
Trunc(c) == IF c.n >= 0 THEN c.n \div c.d ELSE -((-c.n) \div c.d)

----------------------------------------------------------------------------
(* Frames                                                                  *)

AllCols == {"ANMOIS", "CIE_NOM", "CIE_NAT", "CIE_PAYS", "CIE_PAX", "CIE_FRP",
            "CIE_VOL", "year", "month", "PAX_PER_VOL", "FRP_PER_PAX"}

RowKeys == AllCols \cup {"index"}

InSeq(x, s) == \E i \in 1..Len(s) : s[i] = x

HasCol(df, c) == InSeq(c, df.cols)

\* df[c] = values, values a function of the row position; a new column is
\* appended to the column list, an existing one overwritten in place
SetCol(df, c, dt, values) ==
    [cols  |-> IF HasCol(df, c) THEN df.cols ELSE Append(df.cols, c),
     dtype |-> [df.dtype EXCEPT ![c] = dt],
     rows  |-> [i \in 1..Len(df.rows) |-> [df.rows[i] EXCEPT ![c] = values[i]]]]

\* df[mask]: the rows satisfying the mask, in order; columns and dtypes kept
Keep(df, Mask(_)) == [df EXCEPT !.rows = SelectSeq(df.rows, Mask)]

IsNumericDtype(dt) == dt \in {"int64", "float64"}

EmptyFrame == [cols |-> <<>>, dtype |-> [c \in AllCols |-> "-"], rows |-> <<>>]

----------------------------------------------------------------------------
(* Period decomposer: utils/prep.py _ensure_year_column                    *)

Digits == <<"0", "1", "2", "3", "4", "5", "6", "7", "8", "9">>

IsDigit(ch) == InSeq(ch, Digits)

DigitVal(ch) == (CHOOSE i \in 1..10 : Digits[i] = ch) - 1

\* str(n) for n >= 0, as a sequence of characters
RECURSIVE IntToChars(_)
IntToChars(n) ==
    IF n < 10 THEN <<Digits[n + 1]>>
    ELSE Append(IntToChars(n \div 10), Digits[(n % 10) + 1])

\* str.strip(): leading and trailing blanks removed
RECURSIVE LStrip(_)
LStrip(cs) == IF cs # <<>> /\ Head(cs) = " " THEN LStrip(Tail(cs)) ELSE cs

RECURSIVE RStrip(_)
RStrip(cs) ==
    IF cs # <<>> /\ cs[Len(cs)] = " " THEN RStrip(SubSeq(cs, 1, Len(cs) - 1))
    ELSE cs

Strip(cs) == RStrip(LStrip(cs))

RECURSIVE DigitsValue(_)
DigitsValue(cs) ==
    IF cs = <<>> THEN 0
    ELSE 10 * DigitsValue(SubSeq(cs, 1, Len(cs) - 1)) + DigitVal(cs[Len(cs)])

\* int(cell) as astype(int) applies it to one element: an int is itself, a
\* finite float is truncated, a string is parsed (blanks stripped, then one
\* or more decimal digits), a missing value or any other string raises
CanInt(c) ==
    \/ c.k = "num"
    \/ /\ c.k = "txt"
       /\ Strip(c.cs) # <<>>
       /\ \A i \in 1..Len(Strip(c.cs)) : IsDigit(Strip(c.cs)[i])

ToInt(c) == IF c.k = "num" THEN Trunc(c) ELSE DigitsValue(Strip(c.cs))

ColCells(df, c) == [i \in 1..Len(df.rows) |-> df.rows[i][c]]

\* (df['ANMOIS'] // 100).astype(int) and (df['ANMOIS'] % 100).astype(int)
\* a month taken modulo 12 in place of the last two digits
MonthOfMod12(p) == p % 12

YearOf(p) == p \div 100

MonthOf(p) == p % 100

AllNA(df) == [i \in 1..Len(df.rows) |-> NA]

\* a decomposition that also overwrites the period with its year, so that
\* a second application decomposes the year
DecomposeIntInPlace(df) ==
    LET y == [i \in 1..Len(df.rows) |-> IntC(YearOf(df.rows[i]["ANMOIS"].n))]
        m == [i \in 1..Len(df.rows) |-> IntC(MonthOf(df.rows[i]["ANMOIS"].n))]
    IN  SetCol(SetCol(SetCol(df, "year", "int64", y), "month", "int64", m),
               "ANMOIS", "int64", y)

\* lines 7-14: year and month of an integer period column
DecomposeInt(df) ==
    LET y == [i \in 1..Len(df.rows) |-> IntC(YearOf(df.rows[i]["ANMOIS"].n))]
        m == [i \in 1..Len(df.rows) |-> IntC(MonthOf(df.rows[i]["ANMOIS"].n))]
    IN  SetCol(SetCol(df, "year", "int64", y), "month", "int64", m)

\* lines 17-25: coerce the whole column, or give every row an undefined
\* year and month when any one element fails to coerce
DecomposeCoerced(df) ==
    IF \A i \in 1..Len(df.rows) : CanInt(df.rows[i]["ANMOIS"])
    THEN DecomposeInt(SetCol(df, "ANMOIS", "int64",
             [i \in 1..Len(df.rows) |-> IntC(ToInt(df.rows[i]["ANMOIS"]))]))
    ELSE SetCol(SetCol(df, "year", "object", AllNA(df)),
                "month", "object", AllNA(df))

\* lines 26-27: no period column
DecomposeAbsent(df) == SetCol(df, "year", "object", AllNA(df))

\* the frame object passed to _ensure_year_column, after the call: lines
\* 8 and 18 rebind df to a copy before any assignment (lines 24-25 then
\* write to that copy), line 27 writes the year column into the argument
EnsureArgAfter(df) ==
    IF HasCol(df, "ANMOIS") THEN df ELSE DecomposeAbsent(df)

\* the object a function body hands to _ensure_year_column: a copy of its
\* argument ("copy") or the caller's object itself ("caller")
ArgAfter(target, df) == IF target = "caller" THEN EnsureArgAfter(df) ELSE df

ensure_year_column(df) ==
    IF HasCol(df, "ANMOIS")
    THEN IF df.dtype["ANMOIS"] = "int64"
         THEN DecomposeInt(df)
         ELSE DecomposeCoerced(df)
    ELSE DecomposeAbsent(df)

----------------------------------------------------------------------------
(* Filter engine and aggregator: utils/prep.py make_tables                 *)

\* pd.notna(x)
NotNa(c) == c.k \notin {"na", "none"}

\* element-wise series >= v and series <= v: a missing element compares False
CellGE(c, v) == IsNum(c) /\ IsNum(v) /\ RatLE(v, c)

\* series < v, an exclusive upper bound
CellLT(c, v) == IsNum(c) /\ IsNum(v) /\ RatLT(c, v)

CellLE(c, v) == IsNum(c) /\ IsNum(v) /\ RatLE(c, v)

\* series.isin(values)
IsIn(c, values) == c.k = "str" /\ c.s \in values

\* series == value
CellEq(c, s) == c.k = "str" /\ c.s = s

\* a year filter that returns the rows it keeps last row first
YearMaskReversed(df, ymin, ymax) ==
    LET kept == SelectSeq(df.rows, LAMBDA r : CellGE(r["year"], ymin) /\ CellLE(r["year"], ymax))
    IN  [df EXCEPT !.rows = [i \in 1..Len(kept) |-> kept[Len(kept) + 1 - i]]]

YearMask(df, ymin, ymax) ==
    Keep(df, LAMBDA r : CellGE(r["year"], ymin) /\ CellLE(r["year"], ymax))

CountryMask(df, countries) ==
    Keep(df, LAMBDA r : IsIn(r["CIE_PAYS"], countries))

NationalityMask(df, nat) ==
    Keep(df, LAMBDA r : CellEq(r["CIE_NAT"], nat))

\* the filter dictionary filter_and_make builds (lines 104-111): a key is
\* present only when its argument is truthy; countries = {} and
\* nationality = "" stand for a key that is not set
BuildFilters(year_min, year_max, countries, nationality) ==
    [has_year    |-> year_min # None /\ year_max # None,
     year_min    |-> year_min,
     year_max    |-> year_max,
     countries   |-> countries,
     nationality |-> nationality]

\* lines 48-51
MtYearFilter(df, f) ==
    IF f.has_year /\ NotNa(f.year_min) /\ NotNa(f.year_max)
    THEN YearMask(df, IntC(Trunc(f.year_min)), IntC(Trunc(f.year_max)))
    ELSE df

\* lines 52-54
MtCountryFilter(df, f) ==
    IF f.countries # {} /\ HasCol(df, "CIE_PAYS")
    THEN CountryMask(df, f.countries)
    ELSE df

\* lines 55-58
MtNationalityFilter(df, f) ==
    IF f.nationality # "" /\ HasCol(df, "CIE_NAT")
    THEN NationalityMask(df, f.nationality)
    ELSE df

NumericCols(df) == SelectSeq(df.cols, LAMBDA c : IsNumericDtype(df.dtype[c]))

\* a metric choice without fallback: None unless the requested metric is a
\* numeric column
MetricColStrict(df, metric) ==
    IF metric # "" /\ HasCol(df, metric) /\ IsNumericDtype(df.dtype[metric])
    THEN metric
    ELSE ""

\* lines 62-68: the requested metric when it is a numeric column, else
\* CIE_PAX when the frame has it, else the first numeric column, else None
\* (written "")
MetricCol(df, metric) ==
    IF metric # "" /\ HasCol(df, metric) /\ IsNumericDtype(df.dtype[metric])
    THEN metric
    ELSE IF HasCol(df, "CIE_PAX") THEN "CIE_PAX"
         ELSE IF NumericCols(df) # <<>> THEN NumericCols(df)[1]
         ELSE ""

\* sum of the defined numbers of a sequence of cells; missing ones are skipped
RECURSIVE SumCells(_)
SumCells(cells) ==
    IF cells = <<>> THEN IntC(0)
    ELSE IF IsNum(Head(cells)) THEN RatAdd(Head(cells), SumCells(Tail(cells)))
         ELSE SumCells(Tail(cells))

CountCells(cells) == Len(SelectSeq(cells, IsNum))

\* the value cells of the rows whose key column holds key
GroupCells(df, keycol, key, valcol) ==
    LET g == SelectSeq(df.rows, LAMBDA r : r[keycol] = key)
    IN  [i \in 1..Len(g) |-> g[i][valcol]]

Min(S) == CHOOSE x \in S : \A y \in S : x <= y

RECURSIVE SortSet(_)
SortSet(S) == IF S = {} THEN <<>> ELSE <<Min(S)>> \o SortSet(S \ {Min(S)})

\* the distinct defined years of a frame, latest first
YearKeysDesc(df) ==
    LET ks == SortSet({df.rows[i]["year"].n :
                          i \in {j \in 1..Len(df.rows) : IsNum(df.rows[j]["year"])}})
    IN  [i \in 1..Len(ks) |-> ks[Len(ks) + 1 - i]]

\* the distinct defined years of a frame, ascending (groupby sorts its keys)
YearKeys(df) ==
    SortSet({df.rows[i]["year"].n : i \in {j \in 1..Len(df.rows) : IsNum(df.rows[j]["year"])}})

\* the order of Python's string comparison on the labels of the model
LabelOrder == <<"A", "B", "C", "FRANCE", "France", "USA">>

LabelKeys(df, col) ==
    SelectSeq(LabelOrder,
              LAMBDA l : \E i \in 1..Len(df.rows) : df.rows[i][col] = Str(l))

\* df.groupby('year')[metric_col].sum().reset_index()
GroupByYearSum(df, metric_col) ==
    LET ks == YearKeys(df)
    IN  [i \in 1..Len(ks) |->
            [key |-> IntC(ks[i]),
             val |-> SumCells(GroupCells(df, "year", IntC(ks[i]), metric_col))]]

\* df.groupby('CIE_PAYS').agg({metric_col: 'sum'}).reset_index()
GroupByRegionSum(df, metric_col) ==
    LET ks == LabelKeys(df, "CIE_PAYS")
    IN  [i \in 1..Len(ks) |->
            [key |-> Str(ks[i]),
             val |-> SumCells(GroupCells(df, "CIE_PAYS", Str(ks[i]), metric_col))]]

RemoveAt(s, i) == SubSeq(s, 1, i - 1) \o SubSeq(s, i + 1, Len(s))

\* the order of floats, with inf above every number
PctLE(a, b) == b = Inf \/ (a # Inf /\ RatLE(a, b))
PctLT(a, b) == PctLE(a, b) /\ a # b

\* the positions idx of a short sequence of keys in the order of a stable
\* sort: positions of equal keys keep their order
RECURSIVE OrderDesc(_, _)
OrderDesc(keys, idx) ==
    IF idx = <<>> THEN <<>>
    ELSE LET i == CHOOSE j \in 1..Len(idx) :
                    /\ \A k \in 1..Len(idx) : PctLE(keys[idx[k]], keys[idx[j]])
                    /\ \A k \in 1..(j - 1) : PctLT(keys[idx[k]], keys[idx[j]])
         IN  <<idx[i]>> \o OrderDesc(keys, RemoveAt(idx, i))

RECURSIVE OrderAsc(_, _)
OrderAsc(keys, idx) ==
    IF idx = <<>> THEN <<>>
    ELSE LET i == CHOOSE j \in 1..Len(idx) :
                    /\ \A k \in 1..Len(idx) : PctLE(keys[idx[j]], keys[idx[k]])
                    /\ \A k \in 1..(j - 1) : PctLT(keys[idx[j]], keys[idx[k]])
         IN  <<idx[i]>> \o OrderAsc(keys, RemoveAt(idx, i))

\* sort_values(val, ascending=False) with a stable sort: entries of equal
\* value keep their order
SortDesc(t) ==
    LET p == OrderDesc([i \in 1..Len(t) |-> t[i].val], [i \in 1..Len(t) |-> i])
    IN  [i \in 1..Len(t) |-> t[p[i]]]

\* the orders of a table that are descending by value.  sort_values sorts
\* with kind='quicksort', which is not stable: entries of equal value come
\* out in an order that the sorting routine of the build decides, so every
\* such order is an outcome of line 85
DescOrders(t) ==
    {[i \in 1..Len(t) |-> t[p[i]]] :
        p \in {q \in [1..Len(t) -> 1..Len(t)] :
                  /\ \A i, j \in 1..Len(t) : q[i] = q[j] => i = j
                  /\ \A i, j \in 1..Len(t) : i < j => RatLE(t[q[j]].val, t[q[i]].val)}}

\* lines 70-75
Timeseries(df, metric_col) ==
    IF HasCol(df, "year") /\ YearKeys(df) # <<>> /\ metric_col # ""
    THEN GroupByYearSum(df, metric_col)
    ELSE <<>>

\* lines 77-88 (the model's frames carry no CIE_PAYS_EN / CIE_PAYS_ISO3)
ByRegion(df, metric_col) ==
    IF HasCol(df, "CIE_PAYS") /\ metric_col # ""
    THEN SortDesc(GroupByRegionSum(df, metric_col))
    ELSE <<>>

\* make_tables, with the frame after each of its steps; geo is always empty
\* as the model's frames carry no lat / lon columns (lines 90-93)
\* line 43: make_tables works on df.copy()
MtWorksOn == "copy"

make_tables(df, f, metric) ==
    LET ens  == ensure_year_column(df)
        yf   == MtYearFilter(ens, f)
        cf   == MtCountryFilter(yf, f)
        nf   == MtNationalityFilter(cf, f)
        mcol == MetricCol(nf, metric)
    IN  [input_after |-> ArgAfter(MtWorksOn, df),
         ens |-> ens, year_f |-> yf, country_f |-> cf, rows |-> nf,
         metric_col |-> mcol,
         timeseries |-> Timeseries(nf, mcol),
         by_region  |-> ByRegion(nf, mcol),
         geo        |-> <<>>]

----------------------------------------------------------------------------
(* utils/prep.py filter_and_make                                           *)

\* line 120-121
FmYearFilter(df, f) ==
    IF f.has_year THEN YearMask(df, f.year_min, f.year_max) ELSE df

\* line 122-123: the column is indexed without a test for its presence
FmCountryRaises(df, f) == f.countries # {} /\ ~HasCol(df, "CIE_PAYS")

FmCountryFilter(df, f) ==
    IF f.countries # {} THEN CountryMask(df, f.countries) ELSE df

\* line 124-126
FmNationalityFilter(df, f) ==
    IF f.nationality # "" /\ HasCol(df, "CIE_NAT")
    THEN NationalityMask(df, f.nationality)
    ELSE df

\* filter_and_make, with the frame after each of its steps.  raised = TRUE
\* is the KeyError of line 123: nothing is returned, and df_filtered is then
\* the frame as it stood when the exception left the function.
\* _ensure_year_column applied to the caller's frame itself
FmWorksOnCaller == "caller"

\* line 102: filter_and_make works on df.copy()
FmWorksOn == "copy"

filter_and_make(df, year_min, year_max, countries, metric, nationality) ==
    LET ens1 == ensure_year_column(df)
        f    == BuildFilters(year_min, year_max, countries, nationality)
        mt   == make_tables(ens1, f, metric)
        ens3 == ensure_year_column(ens1)
        yf   == FmYearFilter(ens3, f)
        bad  == FmCountryRaises(yf, f)
        cf   == IF bad THEN yf ELSE FmCountryFilter(yf, f)
        nf   == IF bad THEN yf ELSE FmNationalityFilter(cf, f)
    IN  [input_after |-> ArgAfter(FmWorksOn, df),
         raised |-> bad, filters |-> f, ens1 |-> ens1, mt |-> mt, ens3 |-> ens3,
         year_f |-> yf, country_f |-> cf, df_filtered |-> nf]

\* the results filter_and_make can return: one per order of the ranking
\* among entries of equal value
filter_and_make_outcomes(df, year_min, year_max, countries, metric, nationality) ==
    LET r == filter_and_make(df, year_min, year_max, countries, metric, nationality)
    IN  {[r EXCEPT !.mt.by_region = b] : b \in DescOrders(r.mt.by_region)}

----------------------------------------------------------------------------
(* Metric deriver: app.py, the sidebar's metric options and lines 75-81    *)

\* app.py line 48
SidebarNumericCols(df) ==
    SelectSeq(df.cols, LAMBDA c : IsNumericDtype(df.dtype[c])
                                  /\ c \notin {"ANMOIS", "year"})

\* app.py lines 49-55
MetricOptions(df) ==
    {SidebarNumericCols(df)[i] : i \in 1..Len(SidebarNumericCols(df))}
    \cup (IF InSeq("CIE_PAX", SidebarNumericCols(df))
             /\ InSeq("CIE_VOL", SidebarNumericCols(df))
          THEN {"PAX_PER_VOL"} ELSE {})
    \cup (IF InSeq("CIE_FRP", SidebarNumericCols(df))
             /\ InSeq("CIE_PAX", SidebarNumericCols(df))
          THEN {"FRP_PER_PAX"} ELSE {})

\* series.replace({0: pd.NA}), one element
ReplaceZero(c) == IF IsNum(c) /\ RatIsZero(c) THEN NA ELSE c

\* the dtype of series.replace({0: pd.NA}): a numeric column that holds a
\* zero cannot hold pd.NA and becomes an object column; a column without a
\* zero is unchanged
ReplaceZeroDtype(df, c) ==
    IF \E i \in 1..Len(df.rows) : IsNum(df.rows[i][c]) /\ RatIsZero(df.rows[i][c])
    THEN "object"
    ELSE df.dtype[c]

\* numerator / denominator without the replacement of zero: the plain
\* division of two numeric columns
PlainRatio(num, den) ==
    IF IsNum(num) /\ IsNum(den)
    THEN IF RatIsZero(den) THEN (IF RatIsZero(num) THEN NA ELSE Inf)
         ELSE RatDiv(num, den)
    ELSE NA

\* numerator / denominator.replace({0: pd.NA}), one element; the
\* denominator is never zero here, a missing operand gives a missing result
SafeRatio(num, den) ==
    IF IsNum(num) /\ IsNum(ReplaceZero(den))
    THEN RatDiv(num, ReplaceZero(den))
    ELSE NA

RatioDtype(df, numcol, dencol) ==
    IF ReplaceZeroDtype(df, dencol) = "object" \/ df.dtype[numcol] = "object"
    THEN "object"
    ELSE "float64"

DeriveRatio(df, name, numcol, dencol) ==
    SetCol(df, name, RatioDtype(df, numcol, dencol),
           [i \in 1..Len(df.rows) |->
               SafeRatio(df.rows[i][numcol], df.rows[i][dencol])])

\* app.py lines 76-81
df_with_metrics(df, metric) ==
    IF metric = "PAX_PER_VOL" THEN DeriveRatio(df, "PAX_PER_VOL", "CIE_PAX", "CIE_VOL")
    ELSE IF metric = "FRP_PER_PAX" THEN DeriveRatio(df, "FRP_PER_PAX", "CIE_FRP", "CIE_PAX")
    ELSE df

----------------------------------------------------------------------------
(* Seasonality matrix: utils/viz.py heatmap_seasonality lines 209-261      *)

Months == 12

\* a mean that counts a missing value as a zero
MeanCellsOverAll(cells) ==
    IF cells = <<>> THEN NA ELSE RatDiv(SumCells(cells), IntC(Len(cells)))

\* groupby(...)[metric].mean() of one group: the mean of the defined
\* values, missing when the group has none
MeanCells(cells) ==
    IF CountCells(cells) = 0 THEN NA
    ELSE RatDiv(SumCells(cells), IntC(CountCells(cells)))

Reduce(aggfunc, cells) ==
    IF aggfunc = "mean" THEN MeanCells(cells) ELSE SumCells(cells)

Max(S) == CHOOSE x \in S : \A y \in S : y <= x

\* lines 237-241: the rows of the last years_limit years (0 stands for None)
\* a window that reaches one year further back
LimitYearsWide(df, years_limit) ==
    IF years_limit > 0 /\ df.rows # <<>>
    THEN LET max_year == Max({df.rows[i]["year"].n : i \in 1..Len(df.rows)})
             min_year == max_year - years_limit
         IN  Keep(df, LAMBDA r : min_year <= r["year"].n /\ r["year"].n <= max_year)
    ELSE df

\* lines 238-241
LimitYears(df, years_limit) ==
    IF years_limit > 0 /\ df.rows # <<>>
    THEN LET max_year == Max({df.rows[i]["year"].n : i \in 1..Len(df.rows)})
             min_year == max_year - (years_limit - 1)
         IN  Keep(df, LAMBDA r : min_year <= r["year"].n /\ r["year"].n <= max_year)
    ELSE df

\* lines 243-254: one matrix row per year with a group, one cell per month
\* 1..12; a month without a group is missing
PivotCell(df, metric, aggfunc, y, m) ==
    LET g == SelectSeq(df.rows, LAMBDA r : r["year"] = IntC(y) /\ r["month"] = IntC(m))
    IN  IF g = <<>> THEN NA
        ELSE Reduce(aggfunc, [i \in 1..Len(g) |-> g[i][metric]])

Pivot(df, metric, aggfunc) ==
    LET ys == YearKeys(df)
    IN  [i \in 1..Len(ys) |->
            [year |-> ys[i],
             cells |-> [m \in 1..Months |-> PivotCell(df, metric, aggfunc, ys[i], m)]]]

NoHeatmap(outcome) == [outcome |-> outcome, pivot |-> <<>>]

\* heatmap_seasonality up to the matrix it draws.  outcome "raised" is the
\* exception of lines 235-236 on a period column that does not coerce to
\* integer: the failed astype of line 233 is passed over and the floor
\* division or the cast of line 235 raises.
heatmap_seasonality(df, metric, aggfunc, years_limit) ==
    IF df.rows = <<>> THEN NoHeatmap("no_data")
    ELSE IF metric = "" \/ ~HasCol(df, metric) THEN NoHeatmap("no_metric")
    ELSE IF ~HasCol(df, "ANMOIS") THEN NoHeatmap("no_period")
    ELSE IF \E i \in 1..Len(df.rows) : ~CanInt(df.rows[i]["ANMOIS"])
         THEN NoHeatmap("raised")
    ELSE LET tmp == LimitYears(DecomposeInt(SetCol(df, "ANMOIS", "int64",
                        [i \in 1..Len(df.rows) |-> IntC(ToInt(df.rows[i]["ANMOIS"]))])),
                        years_limit)
             pv  == Pivot(tmp, metric, aggfunc)
         IN  IF \A i \in 1..Len(pv) : \A m \in 1..Months : IsNA(pv[i].cells[m])
             THEN [outcome |-> "all_missing", pivot |-> pv]
             ELSE [outcome |-> "ok", pivot |-> pv]

----------------------------------------------------------------------------
(* Recovery analyser: sections/deep_dives.py render_deep_dives lines 35-156 *)

BaselineRef == 2019

BestN == 3

\* str.upper() on the labels of the model
Upper(l) == IF l = "France" THEN "FRANCE" ELSE l

\* lines 41-44: the French cohort
MaskFr(df, r) ==
    IF HasCol(df, "CIE_NAT") THEN CellEq(r["CIE_NAT"], "F")
    ELSE IF HasCol(df, "CIE_PAYS")
         THEN r["CIE_PAYS"].k = "str" /\ Upper(r["CIE_PAYS"].s) = "FRANCE"
         ELSE FALSE

\* line 51 (the model's frames carry no CIE column)
CompanyCol(df) == IF HasCol(df, "CIE_NOM") THEN "CIE_NOM" ELSE df.cols[1]

\* pd.to_numeric(x, errors='coerce'), one element
ToNumeric(c) ==
    IF IsNum(c) THEN c
    ELSE IF c.k = "txt" /\ CanInt(c) THEN IntC(ToInt(c))
    ELSE NA

\* lines 53-57: the year of the cohort's rows
RecYear(df) ==
    IF HasCol(df, "ANMOIS") /\ \A i \in 1..Len(df.rows) : CanInt(df.rows[i]["ANMOIS"])
    THEN SetCol(df, "year", "int64",
                [i \in 1..Len(df.rows) |-> IntC(YearOf(ToInt(df.rows[i]["ANMOIS"])))])
    ELSE SetCol(df, "year", "float64",
                [i \in 1..Len(df.rows) |->
                    IF HasCol(df, "year") THEN ToNumeric(df.rows[i]["year"]) ELSE NA])

\* the groups of groupby([company_col, 'year']): rows with a missing key
\* are dropped
InAgg(r, ccol) == ~IsNA(r[ccol]) /\ IsNum(r["year"])

AggYears(df, ccol) ==
    SortSet({df.rows[i]["year"].n :
                i \in {j \in 1..Len(df.rows) : InAgg(df.rows[j], ccol)}})

\* the baseline year taken as the earliest year whatever the years are
BaselineYearEarliest(years) == years[1]

\* lines 67-68
BaselineYear(years) == IF InSeq(BaselineRef, years) THEN BaselineRef ELSE years[1]
LatestYear(years) == years[Len(years)]

\* the entities with a group in the given year, in the order of groupby
RECURSIVE SortCells(_)
SortCells(S) ==
    IF S = {} THEN <<>>
    ELSE LET m == CHOOSE x \in S : \A y \in S :
                    IF IsNum(x) THEN RatLE(x, y)
                    ELSE \E i, j \in 1..Len(LabelOrder) :
                            LabelOrder[i] = x.s /\ LabelOrder[j] = y.s /\ i <= j
         IN  <<m>> \o SortCells(S \ {m})

EntitiesIn(df, ccol, year) ==
    SortCells({df.rows[i][ccol] :
                 i \in {j \in 1..Len(df.rows) :
                          InAgg(df.rows[j], ccol) /\ df.rows[j]["year"].n = year}})

\* agg[agg['year'] == y].set_index(company_col)[metric], one entity: the sum
\* of its rows of that year, or missing when it has no row in that year
YearTotal(df, ccol, mcol, entity, year) ==
    LET g == SelectSeq(df.rows, LAMBDA r : InAgg(r, ccol) /\ r[ccol] = entity
                                           /\ r["year"].n = year)
    IN  IF g = <<>> THEN NA
        ELSE SumCells([i \in 1..Len(g) |-> ToNumeric(g[i][mcol])])

\* the joined frame without .fillna(0)
FillNaKeep(c) == c

\* line 76: .fillna(0) on the joined totals
FillNa0(c) == IF IsNum(c) THEN c ELSE IntC(0)

\* safe_pct with the zero-baseline test on l >= 0 instead of l > 0
safe_pct_nonneg(b, l) ==
    IF RatIsZero(b)
    THEN IF RatLE(IntC(0), l) THEN Inf ELSE IntC(0)
    ELSE RatMul(RatDiv(l, b), IntC(100))

\* lines 79-84
safe_pct(b, l) ==
    IF RatIsZero(b)
    THEN IF RatLT(IntC(0), l) THEN Inf ELSE IntC(0)
    ELSE RatMul(RatDiv(l, b), IntC(100))

\* the record with abs_delta taken as baseline minus latest
RecoveryRecordBaseMinusLast(df, ccol, mcol, entity, by, ly) ==
    LET b == FillNa0(YearTotal(df, ccol, mcol, entity, by))
        l == FillNa0(YearTotal(df, ccol, mcol, entity, ly))
    IN  [name |-> entity, base |-> b, last |-> l,
         abs_delta |-> RatSub(b, l), pct_recovered |-> safe_pct(b, l)]

\* lines 76-86: one record per entity of the baseline year, then per entity
\* of the latest year only
RecoveryRecord(df, ccol, mcol, entity, by, ly) ==
    LET b == FillNa0(YearTotal(df, ccol, mcol, entity, by))
        l == FillNa0(YearTotal(df, ccol, mcol, entity, ly))
    IN  [name |-> entity, base |-> b, last |-> l,
         abs_delta |-> RatSub(l, b), pct_recovered |-> safe_pct(b, l)]

RecoveryTable(df, ccol, mcol, by, ly) ==
    LET eb  == EntitiesIn(df, ccol, by)
        el  == SelectSeq(EntitiesIn(df, ccol, ly), LAMBDA e : ~InSeq(e, eb))
        ent == eb \o el
    IN  [i \in 1..Len(ent) |-> RecoveryRecord(df, ccol, mcol, ent[i], by, ly)]

\* stable sorts of a short table by one field
SortRecDesc(t, Key(_)) ==
    LET p == OrderDesc([i \in 1..Len(t) |-> Key(t[i])],
                       [i \in 1..Len(t) |-> i])
    IN  [i \in 1..Len(t) |-> t[p[i]]]

SortRecAsc(t, Key(_)) ==
    LET p == OrderAsc([i \in 1..Len(t) |-> Key(t[i])],
                      [i \in 1..Len(t) |-> i])
    IN  [i \in 1..Len(t) |-> t[p[i]]]

TakeHead(t, n) == SubSeq(t, 1, IF Len(t) < n THEN Len(t) ELSE n)

\* line 101
BestOf(top) == TakeHead(SortRecDesc(top, LAMBDA r : r.pct_recovered), BestN)

\* lines 103-104
WorstOf(top) ==
    TakeHead(SortRecAsc(SelectSeq(top, LAMBDA r : r.pct_recovered # Inf),
                        LAMBDA r : r.pct_recovered), BestN)

\* line 126
InfersOf(top) == SelectSeq(top, LAMBDA r : r.pct_recovered = Inf)

NoRecovery(outcome) ==
    [outcome |-> outcome, baseline_year |-> None, latest_year |-> None,
     table |-> <<>>, top |-> <<>>, best |-> <<>>, worst |-> <<>>, infers |-> <<>>]

\* the recovery part of render_deep_dives.  outcome "failed" is the except
\* of line 155: with baseline_year = latest_year the two columns of the
\* joined frame carry one label, df_recovery[label] is a frame and the
\* assignment of line 77 raises.
recovery(df_filtered, metric, top_n) ==
    LET fr   == Keep(df_filtered, LAMBDA r : MaskFr(df_filtered, r))
        mcol == IF metric # "" THEN metric ELSE "CIE_PAX"
    IN  IF fr.rows = <<>> THEN NoRecovery("no_french")
        ELSE LET ccol  == CompanyCol(fr)
                 yr    == RecYear(fr)
                 years == AggYears(yr, ccol)
             IN  IF ~HasCol(yr, mcol) THEN NoRecovery("no_metric")
                 ELSE IF years = <<>> THEN NoRecovery("insufficient")
                 ELSE IF BaselineYear(years) = LatestYear(years)
                      THEN [NoRecovery("failed") EXCEPT
                                !.baseline_year = IntC(BaselineYear(years)),
                                !.latest_year = IntC(LatestYear(years))]
                 ELSE LET by  == BaselineYear(years)
                          ly  == LatestYear(years)
                          tab == SortRecDesc(RecoveryTable(yr, ccol, mcol, by, ly),
                                             LAMBDA r : r.last)
                          top == TakeHead(tab, top_n)
                      IN  [outcome |-> "ok",
                           baseline_year |-> IntC(by), latest_year |-> IntC(ly),
                           table |-> tab, top |-> top, best |-> BestOf(top),
                           worst |-> WorstOf(top), infers |-> InfersOf(top)]

----------------------------------------------------------------------------
(* Type normaliser: utils/io.py fetch_and_cache lines 59-69                *)

NBSP == "nbsp"

\* astype(str): a null becomes the text 'nan'
AsStr(c) == IF IsNA(c) THEN <<"n", "a", "n">> ELSE c.cs

\* str.replace(old, new) with single characters; new = "" removes
RECURSIVE ReplaceChar(_, _, _)
ReplaceChar(cs, old, new) ==
    IF cs = <<>> THEN <<>>
    ELSE (IF Head(cs) = old THEN (IF new = "" THEN <<>> ELSE <<new>>)
          ELSE <<Head(cs)>>) \o ReplaceChar(Tail(cs), old, new)

\* line 62
Trimmed(c) == Strip(ReplaceChar(AsStr(c), NBSP, " "))

\* line 64
NumericCandidate(c) == ReplaceChar(ReplaceChar(Trimmed(c), " ", ""), ",", ".")

DotCount(cs) == Len(SelectSeq(cs, LAMBDA ch : ch = "."))

DigitCount(cs) == Len(SelectSeq(cs, IsDigit))

RECURSIVE Pow10(_)
Pow10(k) == IF k = 0 THEN 1 ELSE 10 * Pow10(k - 1)

\* the text parses as a decimal number: digits with at most one point and
\* at least one digit (the model's alphabet has no sign and no exponent)
ParsesAsNumber(cs) ==
    /\ DigitCount(cs) >= 1
    /\ DotCount(cs) <= 1
    /\ DigitCount(cs) + DotCount(cs) = Len(cs)

DecimalValue(cs) ==
    LET dot  == IF DotCount(cs) = 0 THEN Len(cs) + 1
                ELSE CHOOSE i \in 1..Len(cs) : cs[i] = "."
        frac == Len(cs) - dot
        digs == SelectSeq(cs, IsDigit)
    IN  Num(DigitsValue(digs), Pow10(IF frac < 0 THEN 0 ELSE frac))

\* pd.to_numeric(text, errors='coerce'), one element: the text 'nan'
\* parses as the float NaN, which is a missing value
ToNumericText(cs) == IF ParsesAsNumber(cs) THEN DecimalValue(cs) ELSE NA

\* line 65
Converted(col) == [i \in 1..Len(col) |-> ToNumericText(NumericCandidate(col[i]))]

\* line 66: converted.notna().mean() > 0.5, the mean over every element of
\* the column; the mean of an empty column is NaN and the test is False
MajorityParsed(col) ==
    Len(col) > 0 /\ 2 * CountCells(Converted(col)) > Len(col)

\* lines 61-69 on one object column
normalize_column(col) ==
    IF MajorityParsed(col)
    THEN [dtype |-> IF \A i \in 1..Len(col) : IsNum(Converted(col)[i])
                                                 /\ Converted(col)[i].d = 1
                    THEN "int64" ELSE "float64",
          cells |-> Converted(col)]
    ELSE [dtype |-> "object", cells |-> [i \in 1..Len(col) |-> Txt(Trimmed(col[i]))]]

----------------------------------------------------------------------------
(* Inputs                                                                  *)

MaxRows == 2

MaxColumn == 3

SeqsUpTo(S, n) == UNION {[1..k -> S] : k \in 0..n}

CanonicalCols == <<"ANMOIS", "CIE_NOM", "CIE_NAT", "CIE_PAYS", "CIE_PAX",
                   "CIE_FRP", "CIE_VOL">>

\* the ways the period column arrives: integers; integer-valued strings;
\* a float column whose first value is missing; strings of which the last
\* is not an integer ("2019-01"); no period column
Encodings == {"int", "str", "nan_first", "bad_last", "absent"}

BadPeriod == <<"2", "0", "1", "9", "-", "0", "1">>

PeriodCell(enc, p, i, n) ==
    CASE enc = "int"       -> IntC(p)
      [] enc = "str"       -> Txt(IntToChars(p))
      [] enc = "nan_first" -> IF i = 1 THEN NA ELSE IntC(p)
      [] enc = "bad_last"  -> IF i = n THEN Txt(BadPeriod) ELSE Txt(IntToChars(p))
      [] OTHER             -> Absent

PeriodDtype(enc) ==
    CASE enc = "int"       -> "int64"
      [] enc = "nan_first" -> "float64"
      [] enc = "absent"    -> "-"
      [] OTHER             -> "object"

\* the dtype read_csv / read_parquet gives a column of numbers
NumDtype(cells) ==
    IF \A i \in 1..Len(cells) : IsNum(cells[i]) /\ cells[i].d = 1
    THEN "int64" ELSE "float64"

\* the frame of the given base rows [p, nom, nat, pays, pax, frp, vol], with
\* the period column encoded as enc and only the columns of present
MkFrame(enc, present, base) ==
    LET n == Len(base)
        has(c) == IF c = "ANMOIS" THEN enc # "absent" ELSE c \in present
        cell(c, i) ==
            IF ~has(c) THEN Absent
            ELSE CASE c = "ANMOIS"   -> PeriodCell(enc, base[i].p, i, n)
                   [] c = "CIE_NOM"  -> Str(base[i].nom)
                   [] c = "CIE_NAT"  -> Str(base[i].nat)
                   [] c = "CIE_PAYS" -> Str(base[i].pays)
                   [] c = "CIE_PAX"  -> base[i].pax
                   [] c = "CIE_FRP"  -> base[i].frp
                   [] c = "CIE_VOL"  -> base[i].vol
                   [] OTHER          -> Absent
        dt(c) ==
            IF ~has(c) THEN "-"
            ELSE CASE c = "ANMOIS" -> PeriodDtype(enc)
                   [] c \in {"CIE_PAX", "CIE_FRP", "CIE_VOL"} ->
                          NumDtype([i \in 1..n |-> cell(c, i)])
                   [] OTHER -> "object"
    IN  [cols  |-> SelectSeq(CanonicalCols, has),
         dtype |-> [c \in AllCols |-> dt(c)],
         rows  |-> [i \in 1..n |->
                      [c \in RowKeys |-> IF c = "index" THEN IntC(i - 1)
                                         ELSE cell(c, i)]]]

Args(ymin, ymax, countries, nationality, metric, top_n) ==
    [year_min |-> ymin, year_max |-> ymax, countries |-> countries,
     nationality |-> nationality, metric |-> metric, top_n |-> top_n,
     aggfunc |-> "sum", years_limit |-> 0]

NoArgs == Args(None, None, {}, "", "", 3)

NoFm == [raised |-> FALSE]

NoIngest == [col |-> <<>>, out |-> [dtype |-> "-", cells |-> <<>>]]

----------------------------------------------------------------------------
(* The dashboard run: app.py lines 75-118                                  *)

\* app.py lines 76-81
Derive ==
    /\ pc = "start"
    /\ dfm' = df_with_metrics(raw, args.metric)
    /\ pc' = "derived"
    /\ UNCHANGED <<raw, args, fm, hm, rec, ing, cache>>

\* app.py line 84; a KeyError ends the run; dfm is the caller's frame, as
\* the call leaves it
FilterAndMake ==
    /\ pc = "derived"
    /\ fm' \in filter_and_make_outcomes(dfm, args.year_min, args.year_max,
                                        args.countries, args.metric,
                                        args.nationality)
    /\ pc' = IF fm'.raised THEN "raised" ELSE "filtered"
    /\ dfm' = fm'.input_after
    /\ UNCHANGED <<raw, args, hm, rec, ing, cache>>

\* app.py lines 107-110; an exception ends the run
HeatmapSeasonality ==
    /\ pc = "filtered"
    /\ hm' = IF args.metric = "" THEN NoHeatmap("skipped")
             ELSE heatmap_seasonality(fm.df_filtered, args.metric,
                                      args.aggfunc, args.years_limit)
    /\ pc' = IF hm'.outcome = "raised" THEN "raised_heatmap" ELSE "heatmapped"
    /\ UNCHANGED <<raw, args, dfm, fm, rec, ing, cache>>

\* app.py line 118
RenderDeepDives ==
    /\ pc = "heatmapped"
    /\ rec' = recovery(fm.df_filtered, args.metric, args.top_n)
    /\ pc' = "rendered"
    /\ UNCHANGED <<raw, args, dfm, fm, hm, ing, cache>>

\* utils/io.py lines 60-69, one object column of the fetched frame
Normalize ==
    /\ pc = "fetched"
    /\ ing' = [ing EXCEPT !.out = normalize_column(ing.col)]
    /\ pc' = "normalized"
    /\ UNCHANGED <<raw, args, dfm, fm, hm, rec, cache>>

----------------------------------------------------------------------------
(* Ingest cache: utils/io.py fetch_and_cache lines 71-77, load_data 80-98  *)
(*                                                                         *)
(* A cache file is [exists, ver, n, whole, torn]: ver is the snapshot of   *)
(* the writer that opened (and so truncated) it last, n the pieces written *)
(* since, whole whether the write was completed, torn whether another      *)
(* writer wrote into it meanwhile.  The two processes are a refresher,     *)
(* which calls fetch_and_cache, and a loader, which calls                  *)
(* load_data(use_cache=True); their file operations interleave freely, as  *)
(* the code takes no lock and writes the cache files in place.             *)

MaxRefresh == 2

Chunks == 2

Procs == {"refresh", "load"}

NoFile == [exists |-> FALSE, ver |-> 0, n |-> 0, whole |-> FALSE, torn |-> FALSE]

NoSnapshot == [ver |-> 0, n |-> 0, whole |-> FALSE, src |-> "none"]

NoCache ==
    [pq |-> NoFile, csv |-> NoFile, fetched |-> 0, latest |-> 0,
     w |-> [p \in Procs |-> [pc |-> "idle", ver |-> 0, n |-> 0]],
     result |-> NoSnapshot, prev |-> 0, quiet |-> TRUE, readable |-> FALSE]

\* open(path, 'w'): the file is created or truncated
Truncated(ver) == [exists |-> TRUE, ver |-> ver, n |-> 0, whole |-> FALSE, torn |-> FALSE]

\* one more piece written by the writer of snapshot ver; the write that
\* brings the last piece closes the file
Appended(f, ver) ==
    IF f.ver = ver /\ ~f.torn
    THEN [f EXCEPT !.n = f.n + 1, !.whole = (f.n + 1 = Chunks)]
    ELSE [f EXCEPT !.torn = TRUE, !.whole = FALSE]

\* pd.read_parquet: the snapshots it can return; a file without its footer
\* raises (the empty set), a torn file raises or yields what it holds
ReadParquetResults(f) ==
    IF ~f.exists THEN {}
    ELSE IF f.whole THEN {[ver |-> f.ver, n |-> Chunks, whole |-> TRUE, src |-> "parquet"]}
    ELSE IF f.torn THEN {[ver |-> f.ver, n |-> f.n, whole |-> FALSE, src |-> "parquet"]}
    ELSE {}

ParquetMayRaise(f) == f.exists /\ ~f.whole

\* pd.read_csv: an empty file raises, any other content parses as the rows
\* written so far
ReadCsvResults(f) ==
    IF ~f.exists \/ (f.n = 0 /\ ~f.torn) THEN {}
    ELSE {[ver |-> f.ver, n |-> f.n, whole |-> f.whole, src |-> "csv"]}

Readable(c) == ReadParquetResults(c.pq) # {} \/ ReadCsvResults(c.csv) # {}

Loading(c) == c.w["load"].pc \notin {"idle", "done"}

\* a step of the refresher while the loader runs ends the loader's quiet run
Step(c, p) == IF p = "refresh" /\ Loading(c) THEN [c EXCEPT !.quiet = FALSE] ELSE c

\* fetch_and_cache returns all_df (line 77): the refresh is complete, and
\* the loader returns what its own fetch_and_cache returned (line 98)
Returned77(c, p) ==
    LET ver == c.w[p].ver
        d   == [c EXCEPT !.latest = ver]
    IN  IF p = "load"
        THEN [d EXCEPT !.w[p].pc = "done",
                       !.result = [ver |-> ver, n |-> Chunks, whole |-> TRUE, src |-> "remote"]]
        ELSE [d EXCEPT !.w[p].pc = "idle"]

CacheStep(c) ==
    /\ pc = "cache"
    /\ cache' = c
    /\ UNCHANGED <<pc, raw, args, dfm, fm, hm, rec, ing>>

\* the refresher calls fetch_and_cache: lines 29-69 build the snapshot
Refresh ==
    /\ cache.w["refresh"].pc = "idle"
    /\ cache.fetched < MaxRefresh
    /\ CacheStep(Step([cache EXCEPT !.fetched = cache.fetched + 1,
                                    !.w["refresh"] = [pc |-> "to_parquet",
                                                      ver |-> cache.fetched + 1, n |-> 0]],
                      "refresh"))

\* line 73, the start of to_parquet: the file is opened for writing, or the
\* call raises before it touches the file and line 75 is next
ToParquet ==
    \E p \in Procs :
        /\ cache.w[p].pc = "to_parquet"
        /\ \/ CacheStep(Step([cache EXCEPT !.pq = Truncated(cache.w[p].ver),
                                           !.w[p].pc = "write_parquet"], p))
           \/ CacheStep(Step([cache EXCEPT !.w[p].pc = "to_csv"], p))

\* line 73, the rest of to_parquet: one more piece is written, the last
\* one completing the file, or the write raises and leaves the file as it is
WriteParquet ==
    \E p \in Procs :
        /\ cache.w[p].pc = "write_parquet"
        /\ \/ LET c == [cache EXCEPT !.pq = Appended(cache.pq, cache.w[p].ver),
                                     !.w[p].n = cache.w[p].n + 1]
              IN  CacheStep(Step(IF c.w[p].n = Chunks THEN Returned77(c, p) ELSE c, p))
           \/ CacheStep(Step([cache EXCEPT !.w[p].pc = "to_csv", !.w[p].n = 0], p))

\* line 75, the start of to_csv
ToCsv ==
    \E p \in Procs :
        /\ cache.w[p].pc = "to_csv"
        /\ CacheStep(Step([cache EXCEPT !.csv = Truncated(cache.w[p].ver),
                                        !.w[p].pc = "write_csv"], p))

\* line 75, the rest of to_csv
WriteCsv ==
    \E p \in Procs :
        /\ cache.w[p].pc = "write_csv"
        /\ LET c == [cache EXCEPT !.csv = Appended(cache.csv, cache.w[p].ver),
                                  !.w[p].n = cache.w[p].n + 1]
           IN  CacheStep(Step(IF c.w[p].n = Chunks THEN Returned77(c, p) ELSE c, p))

\* the loader calls load_data(use_cache=True)
LoadData ==
    /\ cache.w["load"].pc = "idle"
    /\ CacheStep([cache EXCEPT !.w["load"].pc = "read_parquet",
                               !.prev = cache.latest,
                               !.quiet = (cache.w["refresh"].pc = "idle"),
                               !.readable = Readable(cache)])

\* lines 85-89
ReadParquet ==
    /\ cache.w["load"].pc = "read_parquet"
    /\ \/ \E r \in ReadParquetResults(cache.pq) :
             CacheStep([cache EXCEPT !.w["load"].pc = "done", !.result = r])
       \/ /\ ~cache.pq.exists \/ ParquetMayRaise(cache.pq)
          /\ CacheStep([cache EXCEPT !.w["load"].pc = "read_csv"])

\* lines 91-96
ReadCsv ==
    /\ cache.w["load"].pc = "read_csv"
    /\ \/ \E r \in ReadCsvResults(cache.csv) :
             CacheStep([cache EXCEPT !.w["load"].pc = "done", !.result = r])
       \/ /\ ReadCsvResults(cache.csv) = {}
          /\ CacheStep([cache EXCEPT !.w["load"].pc = "fetch"])

\* line 98: fetch_and_cache called by the loader
Fetch ==
    /\ cache.w["load"].pc = "fetch"
    /\ CacheStep([cache EXCEPT !.fetched = cache.fetched + 1,
                               !.w["load"] = [pc |-> "to_parquet",
                                              ver |-> cache.fetched + 1, n |-> 0]])

----------------------------------------------------------------------------
(* Initial states: the frames and selections each part is run on           *)

Base(p, nom, nat, pays, pax, frp, vol) ==
    [p |-> p, nom |-> nom, nat |-> nat, pays |-> pays, pax |-> pax,
     frp |-> frp, vol |-> vol]

\* rows whose passenger and flight counts tell every subset of rows apart
\* by its sum
PrepRows ==
    {Base(201901, "A", "F", "FRANCE", IntC(10), IntC(1), IntC(1)),
     Base(201901, "B", "E", "USA",    IntC(20), IntC(1), IntC(2)),
     Base(202012, "A", "F", "USA",    IntC(40), IntC(1), IntC(4)),
     Base(202012, "B", "E", "FRANCE", IntC(80), IntC(1), IntC(8))}

\* year_min, year_max as the caller passes them: both, one or none
YearPairs ==
    {<<None, None>>, <<IntC(2019), None>>, <<None, IntC(2020)>>,
     <<IntC(2019), IntC(2019)>>, <<IntC(2020), IntC(2020)>>,
     <<IntC(2019), IntC(2020)>>}

PrepFrames ==
    {MkFrame(enc, present \cup {"CIE_NOM", "CIE_NAT"}, base) :
        enc \in {"int", "nan_first", "absent"},
        present \in SUBSET {"CIE_PAYS", "CIE_PAX", "CIE_VOL"},
        base \in SeqsUpTo(PrepRows, MaxRows)}

PrepArgs ==
    {Args(y[1], y[2], countries, "", metric, 3) :
        y \in YearPairs,
        countries \in {{}, {"FRANCE"}},
        metric \in {"", "CIE_PAX", "CIE_VOL", "CIE_NOM"}}

\* frames lacking any subset of the filter columns and of the metric, with
\* an integer, an uncoercible or an absent period column
FilterFrames ==
    {MkFrame(enc, present \cup {"CIE_NOM"}, base) :
        enc \in {"int", "bad_last", "absent"},
        present \in SUBSET {"CIE_PAYS", "CIE_NAT", "CIE_PAX"},
        base \in SeqsUpTo(PrepRows, MaxRows)}

\* every combination of an active or inactive year, country and
\* nationality filter; a year bound can be NaN
FilterArgs ==
    {Args(y[1], y[2], countries, nationality, "CIE_PAX", 3) :
        y \in {<<None, None>>, <<IntC(2019), None>>, <<IntC(2019), IntC(2019)>>,
               <<IntC(2019), IntC(2020)>>, <<NA, IntC(2020)>>},
        countries \in {{}, {"FRANCE"}},
        nationality \in {"", "F"}}

\* periods in every encoding; the last row has a month outside 1..12
PeriodRows ==
    {Base(201901, "A", "F", "FRANCE", IntC(10), IntC(1), IntC(1)),
     Base(202012, "B", "E", "USA",    IntC(20), IntC(1), IntC(2)),
     Base(202100, "A", "F", "FRANCE", IntC(40), IntC(1), IntC(4))}

PeriodFrames ==
    {MkFrame(enc, present \cup {"CIE_NOM", "CIE_NAT", "CIE_PAX"}, base) :
        enc \in Encodings,
        present \in SUBSET {"CIE_PAYS"},
        base \in SeqsUpTo(PeriodRows, MaxRows)}

PeriodArgs ==
    {Args(y[1], y[2], countries, "", "CIE_PAX", 3) :
        y \in YearPairs, countries \in {{}, {"FRANCE"}}}

Idle ==
    /\ cache = NoCache
    /\ dfm = EmptyFrame
    /\ fm = NoFm
    /\ hm = NoHeatmap("none")
    /\ rec = NoRecovery("none")

InitPrep ==
    /\ pc = "start"
    /\ raw \in PrepFrames
    /\ args \in PrepArgs
    /\ ing = NoIngest
    /\ Idle

InitFilter ==
    /\ pc = "start"
    /\ raw \in FilterFrames
    /\ args \in FilterArgs
    /\ ing = NoIngest
    /\ Idle

InitPeriod ==
    /\ pc = "start"
    /\ raw \in PeriodFrames
    /\ args \in PeriodArgs
    /\ ing = NoIngest
    /\ Idle

\* carrier A with 100 or 200 passengers and carrier B with 0 or 100, in the
\* reference year, a year between and the latest year, and carrier A with
\* 150 passengers in the latest year
MaxRecRows == 3

RecRows ==
    {Base(p, e[1], "F", "FRANCE", e[2], IntC(1), IntC(1)) :
        p \in {201901, 202001, 202401},
        e \in {<<"A", IntC(100)>>, <<"A", IntC(200)>>,
               <<"B", IntC(0)>>, <<"B", IntC(100)>>}}
    \cup {Base(202401, "A", "F", "FRANCE", IntC(150), IntC(1), IntC(1))}

InitRecovery ==
    /\ pc = "start"
    /\ raw \in {MkFrame("int", {"CIE_NOM", "CIE_NAT", "CIE_PAYS", "CIE_PAX"}, base) :
                   base \in SeqsUpTo(RecRows, MaxRecRows)}
    /\ args = Args(None, None, {}, "", "CIE_PAX", 3)
    /\ ing = NoIngest
    /\ Idle

\* rows of one carrier with a passenger count of 10, 30 or 0 or a missing
\* one, in two months of the reference year and in a later period whose
\* month is outside 1..12
MaxAggRows == 3

AggRows ==
    {Base(p, "A", "F", "FRANCE", pax, IntC(1), IntC(1)) :
        p \in {201901, 201903, 202100},
        pax \in {IntC(10), IntC(30), IntC(0), NA}}

InitAgg ==
    /\ pc = "start"
    /\ raw \in {MkFrame("int", {"CIE_NOM", "CIE_NAT", "CIE_PAYS", "CIE_PAX"}, base) :
                   base \in SeqsUpTo(AggRows, MaxAggRows)}
    /\ args \in {[Args(None, None, {}, "", "CIE_PAX", 3) EXCEPT !.aggfunc = a] :
                    a \in {"sum", "mean"}}
    /\ ing = NoIngest
    /\ Idle

\* rows of three categories whose totals can tie
RankRows ==
    {Base(201901, "A", "F", pays, pax, IntC(1), IntC(1)) :
        pays \in {"FRANCE", "France", "USA"},
        pax \in {IntC(10), IntC(20)}}

InitRank ==
    /\ pc = "start"
    /\ raw \in {MkFrame("int", {"CIE_NOM", "CIE_NAT", "CIE_PAYS", "CIE_PAX"}, base) :
                   base \in SeqsUpTo(RankRows, MaxAggRows)}
    /\ args = Args(None, None, {}, "", "CIE_PAX", 3)
    /\ ing = NoIngest
    /\ Idle

\* rows of two carriers in a year before the reference year, in the
\* reference year and in two later years, in frames with and without the
\* period column
\* the recency window of the sidebar: All (written 0), 1 or 2 years
YearsLimits == {0, 1, 2}

YearRows ==
    {Base(p, nom, "F", "FRANCE", IntC(100), IntC(1), IntC(1)) :
        p \in {201801, 201901, 202001, 202401}, nom \in {"A", "B"}}

InitYears ==
    /\ pc = "start"
    /\ raw \in {MkFrame(enc, {"CIE_NOM", "CIE_NAT", "CIE_PAYS", "CIE_PAX"}, base) :
                   enc \in {"int", "absent"},
                   base \in SeqsUpTo(YearRows, MaxRecRows)}
    /\ args \in {[Args(None, None, {}, "", "CIE_PAX", 3) EXCEPT !.years_limit = n] :
                    n \in YearsLimits}
    /\ ing = NoIngest
    /\ Idle

\* rows with a zero, a non-zero and a missing denominator
DeriveRows ==
    {Base(p, "A", "F", "FRANCE", pax, IntC(3), vol) :
        p \in {201901, 202012}, pax \in {IntC(0), IntC(6)},
        vol \in {IntC(0), IntC(4), NA}}

DeriveFrames ==
    {MkFrame("int", {"CIE_NOM", "CIE_NAT", "CIE_PAYS", "CIE_PAX", "CIE_FRP", "CIE_VOL"}, base) :
        base \in SeqsUpTo(DeriveRows, MaxRows)}

InitDerive ==
    /\ pc = "start"
    /\ raw \in DeriveFrames
    /\ args \in {[Args(y, y, {}, "", metric, 3) EXCEPT !.aggfunc = a] :
                    y \in {None, IntC(2019)},
                    metric \in MetricOptions(raw) \cap {"PAX_PER_VOL", "FRP_PER_PAX"},
                    a \in {"sum", "mean"}}
    /\ ing = NoIngest
    /\ Idle

\* raw texts of one fetched column: "7", "1 234", "1,5", nbsp "7",
\* "1,5,2", "x", "7x", "" and " "; and the null
RawTexts ==
    {<<"7">>, <<"1", " ", "2", "3", "4">>, <<"1", ",", "5">>, <<NBSP, "7">>,
     <<"1", ",", "5", ",", "2">>, <<"x">>, <<"7", "x">>, <<>>, <<" ">>}

RawCells == {Txt(t) : t \in RawTexts} \cup {NA}

InitIngest ==
    /\ pc = "fetched"
    /\ ing \in {[col |-> col, out |-> NoIngest.out] : col \in SeqsUpTo(RawCells, MaxColumn)}
    /\ raw = EmptyFrame
    /\ args = NoArgs
    /\ Idle

\* a cold cache, a refresher and a loader
InitCache ==
    /\ pc = "cache"
    /\ raw = EmptyFrame
    /\ args = NoArgs
    /\ ing = NoIngest
    /\ Idle

Init ==
    \/ InitPrep \/ InitFilter \/ InitPeriod \/ InitRecovery \/ InitAgg
    \/ InitRank \/ InitYears \/ InitDerive \/ InitIngest \/ InitCache

NextRun == Derive \/ FilterAndMake \/ HeatmapSeasonality \/ RenderDeepDives

NextIngest == Normalize

NextCache ==
    \/ Refresh \/ ToParquet \/ WriteParquet \/ ToCsv \/ WriteCsv
    \/ LoadData \/ ReadParquet \/ ReadCsv \/ Fetch

Next == NextRun \/ NextIngest \/ NextCache

Spec == Init /\ [][Next]_vars

SpecPrep == InitPrep /\ [][NextRun]_vars

SpecFilter == InitFilter /\ [][NextRun]_vars

SpecPeriod == InitPeriod /\ [][NextRun]_vars

SpecRecovery == InitRecovery /\ [][NextRun]_vars

SpecAgg == InitAgg /\ [][NextRun]_vars

SpecRank == InitRank /\ [][NextRun]_vars

SpecYears == InitYears /\ [][NextRun]_vars

SpecDerive == InitDerive /\ [][NextRun]_vars

SpecIngest == InitIngest /\ [][NextIngest]_vars

SpecCache == InitCache /\ [][NextCache]_vars

----------------------------------------------------------------------------
(* Claims                                                                  *)

Rendered == pc = "rendered" /\ rec.outcome = "ok"

Records(t) == {t[i] : i \in 1..Len(t)}

\* C1: every record of the recovery table has pct_recovered = +infinity
\* when its baseline total is 0 and its latest total is > 0, 0 when the
\* baseline total is 0 and the latest total is not > 0, and otherwise
\* latest / baseline * 100 (baseline 200, latest 100 gives 50); a zero
\* baseline never makes the computation fail.
C1_PctRecovered ==
    Rendered =>
        \A r \in Records(rec.table) :
            /\ (r.base.n = 0 /\ r.last.n > 0) => r.pct_recovered = Inf
            /\ (r.base.n = 0 /\ ~(r.last.n > 0)) => r.pct_recovered = IntC(0)
            /\ r.base.n # 0 =>
                  /\ IsNum(r.pct_recovered)
                  /\ r.pct_recovered.n * r.base.n * r.last.d
                        = 100 * r.last.n * r.base.d * r.pct_recovered.d
            /\ (r.base = IntC(200) /\ r.last = IntC(100)) => r.pct_recovered = IntC(50)

\* a table with a zero baseline under a positive latest total and with
\* the totals 200 and 100
C1_Witness ==
    /\ Rendered
    /\ \E r \in Records(rec.table) : r.base.n = 0 /\ r.last.n > 0
    /\ \E r \in Records(rec.table) : r.base = IntC(200) /\ r.last = IntC(100)

\* C2: neither the top recoveries nor the lagging carriers hold an entity
\* whose pct_recovered is infinite; such entities appear only in the
\* category of new or previously unreported carriers.
C2_NoInfInBestOrWorst ==
    Rendered =>
        /\ \A r \in Records(rec.best) : r.pct_recovered # Inf
        /\ \A r \in Records(rec.worst) : r.pct_recovered # Inf
        /\ \A r \in Records(rec.top) : r.pct_recovered = Inf => r \in Records(rec.infers)

Normalized == pc = "normalized"

NonNull(col) == SelectSeq(col, LAMBDA c : ~IsNA(c))

\* the text of a non-null cell parses as a number after the cleanup
Parses(c) == ParsesAsNumber(NumericCandidate(c))

ParsedNonNull(col) == SelectSeq(col, LAMBDA c : ~IsNA(c) /\ Parses(c))

\* C3: a string column becomes numeric if and only if more than half of
\* its non-null values parse as a number after the cleanup; nulls do not
\* count in the denominator.
C3_MajorityOfNonNull ==
    Normalized =>
        (IsNumericDtype(ing.out.dtype)
            <=> 2 * Len(ParsedNonNull(ing.col)) > Len(NonNull(ing.col)))

\* filter_and_make has returned
Returned == pc \in {"filtered", "heatmapped", "raised_heatmap", "rendered"}

\* filter_and_make has run, to its return or to its exception
Ran == Returned \/ pc = "raised"

RequestedIsNumeric ==
    HasCol(dfm, args.metric) /\ IsNumericDtype(fm.mt.rows.dtype[args.metric])

FallbackCol(df) ==
    IF HasCol(df, "CIE_PAX") THEN "CIE_PAX"
    ELSE IF \E i \in 1..Len(df.cols) : IsNumericDtype(df.dtype[df.cols[i]])
         THEN df.cols[CHOOSE i \in 1..Len(df.cols) :
                        /\ IsNumericDtype(df.dtype[df.cols[i]])
                        /\ \A j \in 1..(i - 1) : ~IsNumericDtype(df.dtype[df.cols[j]])]
         ELSE ""

\* the sum of column c over the rows of df whose column k holds key
SumWhere(df, k, key, c) ==
    SumCells(ColCells(Keep(df, LAMBDA r : r[k] = key), c))

YearActive == args.year_min # None /\ args.year_max # None

InYearRange(r) ==
    /\ r["year"].k = "num"
    /\ args.year_min.n <= r["year"].n
    /\ r["year"].n <= args.year_max.n

\* C5: the year-range filter keeps exactly the rows with
\* year_min <= year <= year_max, both bounds inclusive; it is applied
\* only when both bounds are given; when active it drops every row whose
\* year is undefined and does not fail on such rows.  Both filters are
\* covered: make_tables lines 47-51 and filter_and_make lines 120-121.
C5_YearRange ==
    Ran =>
        /\ fm.mt.year_f.rows =
              IF YearActive THEN SelectSeq(fm.mt.ens.rows, InYearRange)
              ELSE fm.mt.ens.rows
        /\ fm.year_f.rows =
              IF YearActive THEN SelectSeq(fm.ens3.rows, InYearRange)
              ELSE fm.ens3.rows

\* an active filter that keeps one row and drops another
C5_Witness ==
    /\ Ran
    /\ YearActive
    /\ Len(fm.ens3.rows) = 2
    /\ Len(fm.year_f.rows) = 1
    /\ Len(fm.mt.year_f.rows) = 1

\* an active filter on a frame whose years are undefined
C5_WitnessUndefined ==
    /\ Ran
    /\ YearActive
    /\ Len(fm.ens3.rows) = 2
    /\ \A i \in 1..2 : IsNA(fm.ens3.rows[i]["year"])
    /\ fm.year_f.rows = <<>>

\* the period column is absent or does not coerce to integer
PeriodUnusable ==
    \/ ~HasCol(dfm, "ANMOIS")
    \/ \E i \in 1..Len(dfm.rows) : ~CanInt(dfm.rows[i]["ANMOIS"])

UndefinedIn(df, c) ==
    HasCol(df, c) /\ \A i \in 1..Len(df.rows) : IsNA(df.rows[i][c])

\* C6: when the period column cannot be coerced to integer, or is absent,
\* year and month are both undefined for every row and filter_and_make
\* runs to completion without raising.
C6_UndefinedYearMonth ==
    (Ran /\ PeriodUnusable) =>
        /\ pc # "raised"
        /\ UndefinedIn(fm.ens1, "year")
        /\ UndefinedIn(fm.ens1, "month")

YearsOfModel == 2019..2021

ValidPeriods == {y * 100 + m : y \in YearsOfModel, m \in 1..12}

\* the cell holds the period p as an integer or as an integer-valued string
HoldsPeriod(c, p) == c = IntC(p) \/ c = Txt(IntToChars(p))

Decomposed(r, p) ==
    /\ r["year"] = IntC(p \div 100)
    /\ r["month"] = IntC(p % 100)
    /\ 1 <= r["month"].n /\ r["month"].n <= 12
    /\ r["year"].n * 100 + r["month"].n = p

WholeColumnCoerces ==
    /\ HasCol(dfm, "ANMOIS")
    /\ \A i \in 1..Len(dfm.rows) : \E p \in {202100} \cup ValidPeriods :
          HoldsPeriod(dfm.rows[i]["ANMOIS"], p)

C8_Idempotent ==
    Ran => (fm.mt.ens = fm.ens1 /\ fm.ens3 = fm.ens1)

\* a string period column, retyped by the first application
C8_Witness ==
    /\ Ran
    /\ Len(dfm.rows) = 2
    /\ dfm.dtype["ANMOIS"] = "object"
    /\ fm.ens1.dtype["ANMOIS"] = "int64"
    /\ fm.ens3.rows[1]["year"] = IntC(2019)

\* the operands of the derived metric of this run
DerivedMetric == args.metric \in {"PAX_PER_VOL", "FRP_PER_PAX"}
NumCol == IF args.metric = "PAX_PER_VOL" THEN "CIE_PAX" ELSE "CIE_FRP"
DenCol == IF args.metric = "PAX_PER_VOL" THEN "CIE_VOL" ELSE "CIE_PAX"

ZeroDen(i) == raw.rows[i][DenCol] = IntC(0)

\* the rows of the loaded frame that pass the year filter of this run
Selected ==
    {i \in 1..Len(raw.rows) :
        YearActive => /\ args.year_min.n <= raw.rows[i]["ANMOIS"].n \div 100
                      /\ raw.rows[i]["ANMOIS"].n \div 100 <= args.year_max.n}

\* the selected rows with a defined ratio: both operands defined, the
\* denominator not zero
Contributing ==
    {i \in Selected : /\ IsNum(raw.rows[i][NumCol])
                      /\ IsNum(raw.rows[i][DenCol])
                      /\ raw.rows[i][DenCol].n # 0}

RECURSIVE RatioSum(_)
RatioSum(S) ==
    IF S = {} THEN IntC(0)
    ELSE LET i == CHOOSE j \in S : TRUE
         IN  RatAdd(RatDiv(raw.rows[i][NumCol], raw.rows[i][DenCol]),
                    RatioSum(S \ {i}))

RatioMean(S) == IF S = {} THEN NA ELSE RatDiv(RatioSum(S), IntC(Cardinality(S)))

InYear(S, y) == {i \in S : raw.rows[i]["ANMOIS"].n \div 100 = y}

InPeriod(S, y, m) == {i \in S : raw.rows[i]["ANMOIS"].n = y * 100 + m}

\* C9: for the derived ratio metrics PAX_PER_VOL and FRP_PER_PAX, every
\* row whose denominator is zero gets the missing value, never infinity
\* (the row pax = 0, vol = 0 included), the derivation and the later
\* aggregations complete, and every later sum or mean of the derived
\* column (the yearly sums of make_tables when it aggregates the column,
\* the cells of the seasonality matrix, the yearly totals of the recovery
\* table) is the sum or mean over the rows with a defined ratio only.
C9_ZeroDenominatorMissing ==
    (DerivedMetric /\ pc # "start") =>
        /\ pc \notin {"raised", "raised_heatmap"}
        /\ \A i \in 1..Len(raw.rows) :
              ZeroDen(i) => dfm.rows[i][args.metric] = NA
        /\ (Returned /\ fm.mt.metric_col = args.metric) =>
              \A k \in 1..Len(fm.mt.timeseries) :
                  fm.mt.timeseries[k].val =
                      RatioSum(InYear(Contributing, fm.mt.timeseries[k].key.n))
        /\ pc \in {"heatmapped", "rendered"} =>
              /\ hm.outcome \in {"ok", "all_missing", "no_data"}
              /\ \A k \in 1..Len(hm.pivot) : \A m \in 1..Months :
                    hm.pivot[k].cells[m] =
                        IF InPeriod(Selected, hm.pivot[k].year, m) = {} THEN NA
                        ELSE IF args.aggfunc = "mean"
                             THEN RatioMean(InPeriod(Contributing, hm.pivot[k].year, m))
                             ELSE RatioSum(InPeriod(Contributing, hm.pivot[k].year, m))
        /\ Rendered =>
              \A r \in Records(rec.table) :
                  /\ r.base = RatioSum(InYear(Contributing, rec.baseline_year.n))
                  /\ r.last = RatioSum(InYear(Contributing, rec.latest_year.n))

\* a seasonality cell that averages a defined ratio and a zero-denominator
\* row of the same month, the row pax = 0, vol = 0 among the rows
C9_Witness ==
    /\ pc = "rendered"
    /\ args.metric = "PAX_PER_VOL"
    /\ args.aggfunc = "mean"
    /\ hm.outcome = "ok"
    /\ \E i, j \in 1..Len(raw.rows) :
          /\ ZeroDen(i) /\ raw.rows[i]["CIE_PAX"] = IntC(0)
          /\ j \in Contributing
          /\ raw.rows[i]["ANMOIS"] = raw.rows[j]["ANMOIS"]
          /\ \E k \in 1..Len(hm.pivot) :
                /\ IntC(hm.pivot[k].year * 100 + 1) = raw.rows[j]["ANMOIS"]
                /\ hm.pivot[k].cells[1] = RatDiv(raw.rows[j]["CIE_PAX"], raw.rows[j]["CIE_VOL"])

\* the recovery totals of a run whose derived column holds a missing value
C9_WitnessTotals ==
    /\ Rendered
    /\ DerivedMetric
    /\ \E i \in 1..Len(raw.rows) : ZeroDen(i)
    /\ \E r \in Records(rec.table) : r.base.n # 0

\* C10: the country filter keeps exactly the rows whose CIE_PAYS is in the
\* allow-set; an empty allow-set filters nothing; and the rows
\* filter_and_make returns are filtered as the rows make_tables
\* aggregates are, for every frame, one without CIE_PAYS included.
C10_CountryFilter ==
    Ran =>
        /\ pc # "raised"
        /\ fm.country_f.rows =
              IF args.countries = {} THEN fm.year_f.rows
              ELSE SelectSeq(fm.year_f.rows,
                             LAMBDA r : r["CIE_PAYS"].k = "str"
                                        /\ r["CIE_PAYS"].s \in args.countries)
        /\ fm.country_f.rows = fm.mt.country_f.rows

\* the three filters of make_tables and of filter_and_make, by number
MtFilter(k, df) ==
    CASE k = 1 -> MtYearFilter(df, fm.filters)
      [] k = 2 -> MtCountryFilter(df, fm.filters)
      [] k = 3 -> MtNationalityFilter(df, fm.filters)

FmFilter(k, df) ==
    CASE k = 1 -> FmYearFilter(df, fm.filters)
      [] k = 2 -> FmCountryFilter(df, fm.filters)
      [] k = 3 -> FmNationalityFilter(df, fm.filters)

\* the six orders of the three filters
Orders == {o \in [1..3 -> 1..3] : \A i, j \in 1..3 : o[i] = o[j] => i = j}

\* the rows of df that satisfy every active predicate
Conjunction(df) ==
    SelectSeq(df.rows,
        LAMBDA r :
            /\ YearActive => InYearRange(r)
            /\ (args.countries # {} /\ HasCol(df, "CIE_PAYS")) =>
                   (r["CIE_PAYS"].k = "str" /\ r["CIE_PAYS"].s \in args.countries)
            /\ (args.nationality # "" /\ HasCol(df, "CIE_NAT")) =>
                   r["CIE_NAT"] = Str(args.nationality))

\* C11: for every dataset and every filter specification, the year-range,
\* category and nationality predicates applied in any of their six orders
\* retain the same rows, the rows that satisfy every active predicate; in
\* make_tables (lines 47-58) and in filter_and_make (lines 120-126), which
\* returns them.
C11_FiltersCommute ==
    Ran =>
        /\ pc # "raised"
        /\ \A o \in Orders :
              /\ MtFilter(o[3], MtFilter(o[2], MtFilter(o[1], fm.mt.ens))).rows
                    = Conjunction(fm.mt.ens)
              /\ FmFilter(o[3], FmFilter(o[2], FmFilter(o[1], fm.ens3))).rows
                    = Conjunction(fm.ens3)
        /\ fm.mt.rows.rows = Conjunction(fm.mt.ens)
        /\ fm.df_filtered.rows = Conjunction(fm.ens3)

\* the columns a loaded frame can carry
InputCols == {"CIE_NOM", "CIE_NAT", "CIE_PAYS", "CIE_PAX", "CIE_FRP", "CIE_VOL"}

\* the position in the input of the k-th returned row
InputPos(k) == fm.df_filtered.rows[k]["index"].n + 1

\* C12: the filtered table filter_and_make returns is a sub-sequence of the
\* input rows: every returned row is the input row of its index label, with
\* the same values and the same period, and the returned rows are in the
\* order of the input, none twice.
C12_StableFilter ==
    Returned =>
        /\ \A k \in 1..Len(fm.df_filtered.rows) :
              /\ InputPos(k) \in 1..Len(raw.rows)
              /\ \A c \in InputCols :
                    fm.df_filtered.rows[k][c] = raw.rows[InputPos(k)][c]
              /\ HasCol(raw, "ANMOIS") =>
                    \/ fm.df_filtered.rows[k]["ANMOIS"] = raw.rows[InputPos(k)]["ANMOIS"]
                    \/ /\ CanInt(raw.rows[InputPos(k)]["ANMOIS"])
                       /\ fm.df_filtered.rows[k]["ANMOIS"]
                             = IntC(ToInt(raw.rows[InputPos(k)]["ANMOIS"]))
        /\ \A k, l \in 1..Len(fm.df_filtered.rows) :
              k < l => InputPos(k) < InputPos(l)

\* two rows returned under active filters, the later year first as in the
\* input
C12_Witness ==
    /\ Returned
    /\ YearActive
    /\ args.countries # {}
    /\ Len(fm.df_filtered.rows) = 2
    /\ fm.df_filtered.rows[1]["year"] = IntC(2020)
    /\ fm.df_filtered.rows[2]["year"] = IntC(2019)

\* C20: filter_and_make never raises for a data-shape problem: for every
\* dataset lacking any subset of ANMOIS, CIE_PAYS, CIE_NAT and the metric,
\* and every filter specification, it returns, and each table affected by
\* a missing column is empty.
C20_NeverRaises ==
    Ran =>
        /\ pc # "raised"
        /\ ~HasCol(raw, "CIE_PAYS") => fm.mt.by_region = <<>>
        /\ ~HasCol(raw, "ANMOIS") => fm.mt.timeseries = <<>>
        /\ ~HasCol(raw, args.metric) =>
              (fm.mt.timeseries = <<>> /\ fm.mt.by_region = <<>>)

\* the input rows of a year, of a period, and those with a defined metric
RowsOfYear(y) == {i \in 1..Len(raw.rows) : raw.rows[i]["ANMOIS"].n \div 100 = y}

RowsOfPeriod(y, m) == {i \in 1..Len(raw.rows) : raw.rows[i]["ANMOIS"].n = y * 100 + m}

DefinedIn(S) == {i \in S : IsNum(raw.rows[i][args.metric])}

RECURSIVE MetricSum(_)
MetricSum(S) ==
    IF S = {} THEN IntC(0)
    ELSE LET i == CHOOSE j \in S : TRUE
         IN  RatAdd(raw.rows[i][args.metric], MetricSum(S \ {i}))

MetricMean(S) == IF S = {} THEN NA ELSE RatDiv(MetricSum(S), IntC(Cardinality(S)))

\* the metric values of the rows of S are 10, missing and 30, in any order
TenMissingThirty(S) ==
    /\ Cardinality(S) = 3
    /\ \E i, j, k \in S :
          /\ raw.rows[i][args.metric] = IntC(10)
          /\ raw.rows[j][args.metric] = NA
          /\ raw.rows[k][args.metric] = IntC(30)

\* every aggregation leaves a missing metric value out of the sum and of
\* the mean of its group: the yearly sums of the time series, the sums of
\* the ranking, the cells of the seasonality matrix (sum or mean) and the
\* yearly totals of the recovery table are the sum, or the mean, over the
\* rows with a defined value; and a group with the values 10, missing, 30
\* gives sum 40 and the mean given
MissingExcluded(mean) ==
    /\ Returned =>
          /\ \A k \in 1..Len(fm.mt.timeseries) :
                /\ fm.mt.timeseries[k].val =
                      MetricSum(DefinedIn(RowsOfYear(fm.mt.timeseries[k].key.n)))
                /\ TenMissingThirty(RowsOfYear(fm.mt.timeseries[k].key.n)) =>
                      fm.mt.timeseries[k].val = IntC(40)
          /\ \A k \in 1..Len(fm.mt.by_region) :
                fm.mt.by_region[k].val = MetricSum(DefinedIn(1..Len(raw.rows)))
    /\ pc \in {"heatmapped", "rendered"} =>
          \A k \in 1..Len(hm.pivot) : \A m \in 1..Months :
              LET S == RowsOfPeriod(hm.pivot[k].year, m)
              IN  /\ S # {} =>
                        hm.pivot[k].cells[m] =
                            IF args.aggfunc = "mean" THEN MetricMean(DefinedIn(S))
                            ELSE MetricSum(DefinedIn(S))
                  /\ TenMissingThirty(S) =>
                        hm.pivot[k].cells[m] =
                            IF args.aggfunc = "mean" THEN mean ELSE IntC(40)
    /\ Rendered =>
          \A r \in Records(rec.table) :
              /\ r.base = MetricSum(DefinedIn(RowsOfYear(rec.baseline_year.n)))
              /\ r.last = MetricSum(DefinedIn(RowsOfYear(rec.latest_year.n)))

\* C13: in every aggregation (time series, ranking, seasonality matrix,
\* recovery) a missing metric value is excluded from the sum and from the
\* mean of its group and never counted as zero; a group with the values
\* 10, missing, 30 gives sum 40 and mean 15.
C13_MissingExcludedMean15 == MissingExcluded(IntC(15))

\* C13 as amended: as above, and a group with the values 10, missing, 30
\* gives sum 40 and mean 20, the mean of the two defined values.
C13_MissingExcluded == MissingExcluded(IntC(20))

\* a seasonality cell that averages 10, missing and 30
C13_Witness ==
    /\ pc = "rendered"
    /\ args.aggfunc = "mean"
    /\ TenMissingThirty(RowsOfPeriod(2019, 1))
    /\ hm.outcome = "ok"
    /\ hm.pivot[1].cells[1] = IntC(20)
    /\ fm.mt.timeseries[1].val = IntC(40)

\* the rows make_tables aggregates, and their distinct defined years
Aggregated == Conjunction(fm.mt.ens)

DefinedYears == {Aggregated[i]["year"].n :
                    i \in {j \in 1..Len(Aggregated) : IsNum(Aggregated[j]["year"])}}

RECURSIVE ColumnSum(_, _)
ColumnSum(rows, c) ==
    IF rows = <<>> THEN IntC(0)
    ELSE IF IsNum(Head(rows)[c]) THEN RatAdd(Head(rows)[c], ColumnSum(Tail(rows), c))
         ELSE ColumnSum(Tail(rows), c)

\* C14: the time series of make_tables has exactly one row per distinct
\* defined year among the filtered rows, its value is the sum of the
\* metric (the requested one when it is a numeric column) over the rows of
\* that year, and its rows are in strictly ascending order of year.
C14_TimeseriesPerYear ==
    Returned =>
        LET ts == fm.mt.timeseries
        IN  /\ Len(ts) = Cardinality(DefinedYears)
            /\ {ts[k].key : k \in 1..Len(ts)} = {IntC(y) : y \in DefinedYears}
            /\ \A k \in 1..Len(ts) :
                  ts[k].val = ColumnSum(SelectSeq(Aggregated,
                                            LAMBDA r : r["year"] = ts[k].key),
                                        fm.mt.metric_col)
            /\ \A k, l \in 1..Len(ts) : k < l => ts[k].key.n < ts[l].key.n
            /\ RequestedIsNumeric => fm.mt.metric_col = args.metric

\* a time series of two years from rows that arrive latest year first
C14_Witness ==
    /\ Returned
    /\ RequestedIsNumeric
    /\ YearActive
    /\ Len(raw.rows) = 2
    /\ raw.rows[1]["ANMOIS"] = IntC(202012)
    /\ raw.rows[2]["ANMOIS"] = IntC(201901)
    /\ Len(fm.mt.timeseries) = 2
    /\ fm.mt.timeseries[1].key = IntC(2019)
    /\ fm.mt.timeseries[1].val = raw.rows[2][args.metric]

\* the category labels of the rows make_tables aggregates
Categories == {Aggregated[i]["CIE_PAYS"] : i \in 1..Len(Aggregated)}

\* label a sorts before label b (the order of Python's strings)
LabelBefore(a, b) ==
    \E i, j \in 1..Len(LabelOrder) :
        i < j /\ a = Str(LabelOrder[i]) /\ b = Str(LabelOrder[j])

\* C15: the ranking table has one row per category, ordered by reduced
\* value descending, and two categories of equal reduced value are in
\* ascending order of their labels: the order, and with it the first row
\* (the 'Top region' KPI) and the top-10 cut, is determined by the data.
C15_RankingTieOrder ==
    Returned =>
        LET t == fm.mt.by_region
        IN  /\ Len(t) = Cardinality(Categories)
            /\ {t[k].key : k \in 1..Len(t)} = Categories
            /\ \A k, l \in 1..Len(t) :
                  k < l => \/ RatLT(t[l].val, t[k].val)
                           \/ (t[l].val = t[k].val /\ LabelBefore(t[k].key, t[l].key))

\* C16: the seasonality matrix has exactly the month columns 1..12
\* whatever months occur in the data; a (year, month) cell to which no row
\* contributes a value is undefined and never reported as 0, while a cell
\* whose rows sum to zero is reported as 0.
C16_SeasonalityGrid ==
    (pc \in {"heatmapped", "rendered"} /\ hm.outcome \in {"ok", "all_missing"}) =>
        \A k \in 1..Len(hm.pivot) :
            /\ DOMAIN hm.pivot[k].cells = 1..12
            /\ \A m \in 1..12 :
                  LET D == DefinedIn(RowsOfPeriod(hm.pivot[k].year, m))
                  IN  /\ D = {} => hm.pivot[k].cells[m] = NA
                      /\ (D # {} /\ MetricSum(D) = IntC(0)) =>
                            hm.pivot[k].cells[m] = IntC(0)

\* the rows of the French cohort of one entity in one year
EntityRows(e, y) ==
    {i \in RowsOfYear(y) : /\ raw.rows[i]["CIE_NOM"] = e
                           /\ CellEq(raw.rows[i]["CIE_NAT"], "F")}

\* C17: the recovery table has one record per entity of the cohort that
\* has a row in the baseline year or in the latest year; its baseline total
\* and its latest total are the sums of the metric over the entity's rows
\* of that year, 0 when the entity has no row in that year, so both totals
\* are defined numbers.
C17_TotalsPerEntityYear ==
    Rendered =>
        LET by == rec.baseline_year.n
            ly == rec.latest_year.n
            E  == {raw.rows[i]["CIE_NOM"] :
                      i \in {j \in RowsOfYear(by) \cup RowsOfYear(ly) :
                               CellEq(raw.rows[j]["CIE_NAT"], "F")}}
        IN  /\ {r.name : r \in Records(rec.table)} = E
            /\ Len(rec.table) = Cardinality(E)
            /\ \A r \in Records(rec.table) :
                  /\ IsNum(r.base) /\ IsNum(r.last)
                  /\ r.base = MetricSum(DefinedIn(EntityRows(r.name, by)))
                  /\ r.last = MetricSum(DefinedIn(EntityRows(r.name, ly)))
                  /\ EntityRows(r.name, by) = {} => r.base = IntC(0)
                  /\ EntityRows(r.name, ly) = {} => r.last = IntC(0)

\* one entity without a row in the baseline year and another without a
\* row in the latest year, next to a total summed over two rows
C17_Witness ==
    /\ Rendered
    /\ \E r \in Records(rec.table) :
          /\ EntityRows(r.name, rec.baseline_year.n) = {}
          /\ r.base = IntC(0) /\ r.last.n > 0
    /\ \E r \in Records(rec.table) :
          /\ EntityRows(r.name, rec.latest_year.n) = {}
          /\ r.last = IntC(0) /\ r.base.n > 0
    /\ \E r \in Records(rec.table) :
          \/ Cardinality(EntityRows(r.name, rec.baseline_year.n)) = 2
          \/ Cardinality(EntityRows(r.name, rec.latest_year.n)) = 2

\* the raw rows are {201901, A, F, pax 100} and {202401, A, F, pax 150}
EndToEndRows ==
    /\ Len(raw.rows) = 2
    /\ args.metric = "CIE_PAX"
    /\ \A i \in 1..2 : CellEq(raw.rows[i]["CIE_NOM"], "A")
                       /\ CellEq(raw.rows[i]["CIE_NAT"], "F")
    /\ raw.rows[1]["ANMOIS"] = IntC(201901) /\ raw.rows[1]["CIE_PAX"] = IntC(100)
    /\ raw.rows[2]["ANMOIS"] = IntC(202401) /\ raw.rows[2]["CIE_PAX"] = IntC(150)

\* C18: in every recovery record abs_delta is the latest total minus the
\* baseline total; the rows {201901, A, F, 100} and {202401, A, F, 150}
\* with the metric pax give the single record of A with baseline 100,
\* latest 150, delta 50 and pct_recovered 150, with 2019 as the baseline
\* year and 2024 as the latest year.
C18_AbsDelta ==
    /\ Rendered =>
          \A r \in Records(rec.table) :
              /\ IsNum(r.abs_delta)
              /\ r.abs_delta.n * r.last.d * r.base.d
                    = (r.last.n * r.base.d - r.base.n * r.last.d) * r.abs_delta.d
    /\ (pc = "rendered" /\ EndToEndRows) =>
          /\ rec.outcome = "ok"
          /\ rec.baseline_year = IntC(2019) /\ rec.latest_year = IntC(2024)
          /\ Len(rec.table) = 1
          /\ CellEq(rec.table[1].name, "A")
          /\ rec.table[1].base = IntC(100)
          /\ rec.table[1].last = IntC(150)
          /\ rec.table[1].abs_delta = IntC(50)
          /\ rec.table[1].pct_recovered = IntC(150)

\* the end-to-end scenario has been rendered
C18_Witness ==
    /\ Rendered
    /\ EndToEndRows
    /\ rec.table[1].abs_delta = IntC(50)

\* the years of the rows of the French cohort
CohortYears ==
    IF ~HasCol(raw, "ANMOIS") THEN {}
    ELSE {raw.rows[i]["ANMOIS"].n \div 100 :
             i \in {j \in 1..Len(raw.rows) : CellEq(raw.rows[j]["CIE_NAT"], "F")}}

\* C19: the baseline year of the recovery analysis is 2019 whenever 2019
\* is among the years of the cohort, otherwise the earliest of these years;
\* the latest year is the greatest of them; when the cohort has no year the
\* analysis ends without a record and without a failure.
C19_BaselineAndLatestYear ==
    pc = "rendered" =>
        IF CohortYears = {}
        THEN /\ rec.outcome \in {"insufficient", "no_french"}
             /\ rec.table = <<>>
        ELSE /\ rec.baseline_year =
                   IntC(IF 2019 \in CohortYears THEN 2019
                        ELSE CHOOSE y \in CohortYears : \A z \in CohortYears : y <= z)
             /\ rec.latest_year =
                   IntC(CHOOSE y \in CohortYears : \A z \in CohortYears : z <= y)

\* a cohort with a year before 2019, with 2019 and with a later year
C19_Witness ==
    /\ Rendered
    /\ {2018, 2019, 2024} \subseteq CohortYears
    /\ rec.baseline_year = IntC(2019)
    /\ rec.latest_year = IntC(2024)

Loaded == cache.w["load"].pc = "done"

\* C21: in every interleaving of a refresh with a load_data reader, the
\* reader obtains a complete snapshot, the one that was the latest when it
\* started or a newer one; it never obtains a partly written dataset or a
\* snapshot older than the one the refresh replaces.
C21_AtomicRefresh ==
    Loaded =>
        /\ cache.result.whole
        /\ cache.result.n = Chunks
        /\ cache.result.ver >= 1
        /\ cache.result.ver >= cache.prev

\* C26: when every refresh has returned before load_data(use_cache=True)
\* starts and none runs meanwhile, load_data returns the whole dataset of
\* the most recent refresh, whichever cache file each refresh wrote, and it
\* fetches remotely only when neither cache file could be read.
C26_MostRecentRefresh ==
    (Loaded /\ cache.quiet) =>
        /\ cache.result.src = "remote" => ~cache.readable
        /\ cache.prev >= 1 =>
              /\ cache.result.whole
              /\ cache.result.ver = cache.prev

\* the years of the filtered rows
FilteredYears ==
    {fm.df_filtered.rows[i]["ANMOIS"].n \div 100 : i \in 1..Len(fm.df_filtered.rows)}

\* the years of the recency window: the last years_limit years up to the
\* greatest filtered year, every year when there is no window
WindowYears ==
    IF args.years_limit > 0
    THEN LET max_year == CHOOSE y \in FilteredYears : \A z \in FilteredYears : z <= y
         IN  {y \in FilteredYears : max_year - args.years_limit + 1 <= y /\ y <= max_year}
    ELSE FilteredYears

\* the filtered rows of one year and month
FilteredOfPeriod(y, m) ==
    {i \in 1..Len(fm.df_filtered.rows) : fm.df_filtered.rows[i]["ANMOIS"].n = y * 100 + m}

RECURSIVE FilteredSum(_)
FilteredSum(S) ==
    IF S = {} THEN IntC(0)
    ELSE LET i == CHOOSE j \in S : TRUE
         IN  RatAdd(fm.df_filtered.rows[i][args.metric], FilteredSum(S \ {i}))

\* C22: with a recency window N > 0 the seasonality matrix has one row per
\* year of the filtered rows within [max_year - N + 1, max_year], so at most
\* N rows, and each of its cells is computed from the filtered rows of that
\* year and month; with no window every year of the filtered rows has its
\* row.
C22_RecencyWindow ==
    (pc \in {"heatmapped", "rendered"} /\ hm.outcome \in {"ok", "all_missing"}) =>
        /\ {hm.pivot[k].year : k \in 1..Len(hm.pivot)} = WindowYears
        /\ Len(hm.pivot) = Cardinality(WindowYears)
        /\ args.years_limit > 0 => Len(hm.pivot) <= args.years_limit
        /\ \A k \in 1..Len(hm.pivot) : \A m \in 1..12 :
              LET S == FilteredOfPeriod(hm.pivot[k].year, m)
              IN  hm.pivot[k].cells[m] = IF S = {} THEN NA ELSE FilteredSum(S)

\* a window of 2 years over the years 2018, 2019 and 2020
C22_Witness ==
    /\ pc = "rendered"
    /\ args.years_limit = 2
    /\ FilteredYears = {2018, 2019, 2020}
    /\ Len(hm.pivot) = 2
    /\ hm.pivot[1].year = 2019

\* the positions in the input of the rows of a table
InputIndex(rows) == {rows[k]["index"].n : k \in 1..Len(rows)}

\* C23: for every dataset and every filter specification filter_and_make
\* returns, and the filtered row table holds exactly the rows make_tables
\* aggregated into the returned tables, also when a filter column is
\* missing or a year bound is NaN.
C23_SameRowSet ==
    Ran =>
        /\ pc # "raised"
        /\ InputIndex(fm.df_filtered.rows) = InputIndex(fm.mt.rows.rows)

\* C24: when the rows of the French cohort lie in a single year, the
\* baseline year is the latest year and the recovery analysis still ends
\* with one record per entity, whose baseline total equals its latest
\* total, with abs_delta = 0 and pct_recovered = 100 (0 when the total is
\* 0); it does not fail.
C24_SingleYearCohort ==
    (pc = "rendered" /\ Cardinality(CohortYears) = 1) =>
        /\ rec.outcome = "ok"
        /\ rec.baseline_year = rec.latest_year
        /\ {r.name : r \in Records(rec.table)}
              = {raw.rows[i]["CIE_NOM"] :
                    i \in {j \in 1..Len(raw.rows) : CellEq(raw.rows[j]["CIE_NAT"], "F")}}
        /\ \A r \in Records(rec.table) :
              /\ r.base = r.last
              /\ r.abs_delta = IntC(0)
              /\ r.pct_recovered = IF r.base = IntC(0) THEN IntC(0) ELSE IntC(100)

\* C25: after filter_and_make the caller's dataset is the frame that was
\* passed in, with the same rows, columns, dtypes and values (no year or
\* month column added, ANMOIS not retyped), and the frame filter_and_make
\* passed to make_tables is unchanged by that call as well; whether or not
\* the ANMOIS column is present.
C25_InputUnchanged ==
    Ran =>
        /\ dfm = df_with_metrics(raw, args.metric)
        /\ HasCol(dfm, "year") = HasCol(raw, "year")
        /\ HasCol(dfm, "month") = HasCol(raw, "month")
        /\ dfm.dtype["ANMOIS"] = raw.dtype["ANMOIS"]
        /\ fm.mt.input_after = fm.ens1

\* a dataset without ANMOIS, whose copy got the year column written in place
C25_Witness ==
    /\ Returned
    /\ ~HasCol(raw, "ANMOIS")
    /\ Len(raw.rows) = 2
    /\ ~HasCol(dfm, "year")
    /\ HasCol(fm.df_filtered, "year")

====
